---- MODULE Spec2Model ----
(***************************************************************************)
(* Model of reorganize_ods (src/gui.py, duplicated verbatim in             *)
(* src/copy9_ods_and_graphs.py): the long-format (date, value) series is   *)
(* pivoted into a year-by-month table with a "Suma Anual" column and a     *)
(* "Media Mensual" row, and the table is saved; of create_graph, which     *)
(* charts one year row of that table; and of the callbacks of the window   *)
(* MeteorologicalApp (src/gui.py) that call the two.                       *)
(*                                                                         *)
(* Numbers are exact rationals [n, d] (d > 0); NaN is the cell with d = 0. *)
(* Text cells carry their text in s.  The floating point rounding of the   *)
(* program's sums and means is not modelled.                               *)
(***************************************************************************)
EXTENDS Integers, Sequences, FiniteSets, TLC

VARIABLES raw, pc, df_reorganized, saved, err, asked, chart,
          input_file, output_ods_file, current_language, dark_mode,
          year_entry, message, input_file_label, output_file_label, files

(* The attributes and widgets of MeteorologicalApp, and the files it wrote *)
gui == <<input_file, output_ods_file, current_language, dark_mode,
         year_entry, message, input_file_label, output_file_label, files>>

vars == <<raw, pc, df_reorganized, saved, err, asked, chart, gui>>

----------------------------------------------------------------------------
(* Bounds of the explored inputs *)

NumYears == 2
MaxDup == 2

(* Program constants *)

Sentinel == -9999
NumMonths == 12
HeaderKey == -1

Years == 2021..(2021 + NumYears - 1)
Months == 1..NumMonths
EditMonths == {1, NumMonths}
YearKinds == {"values", "sentinel", "none"}
Headers ==
    { [names |-> <<"Fecha", "Chuvia">>, dated |-> TRUE],
      [names |-> <<"Fecha", "Estacion", "Horas de sol">>, dated |-> TRUE],
      [names |-> <<"Codigo", "Chuvia">>, dated |-> FALSE] }

----------------------------------------------------------------------------
(* Cells: numbers, NaN, text *)

NaN == [n |-> 0, d |-> 0, s |-> ""]
Text(str) == [n |-> 0, d |-> 0, s |-> str]
IsNum(c) == c.d > 0

Abs(i) == IF i < 0 THEN -i ELSE i

RECURSIVE GCD(_, _)
GCD(a, b) == IF b = 0 THEN a ELSE GCD(b, a % b)

Rat(num, den) ==
    LET g == GCD(Abs(num), den)
    IN  [n |-> num \div g, d |-> den \div g, s |-> ""]

Num(i) == Rat(i, 1)
RatAdd(a, b) == Rat(a.n * b.d + b.n * a.d, a.d * b.d)
RatDivInt(a, k) == Rat(a.n, a.d * k)

(* Row keys of the DataFrame index: integers (years, -1) or a string label *)
IntKey(i) == [i |-> i, s |-> ""]
StrKey(str) == [i |-> 0, s |-> str]

----------------------------------------------------------------------------
(* The raw table handed over by the reader: a header row and the data rows. *)
(* A data row is its date (year, month) and its value cell; an empty value  *)
(* cell is the last cell of its row and is trimmed by the reader, so such   *)
(* a row is one cell short.  dated tells whether the table holds a column   *)
(* of dates (otherwise its first column is text).                           *)

NumCell(v) == [kind |-> "num", v |-> v]
EmptyCell == [kind |-> "empty", v |-> 0]
RawCells == <<EmptyCell, NumCell(Sentinel), NumCell(0), NumCell(3)>>

BaseValue(y, m) == m + 2 * (y - 2021)

(* The lists of at most k raw cells, each listed once whatever its order *)
RECURSIVE CellLists(_)
CellLists(k) ==
    IF k = 0 THEN {<<>>}
    ELSE LET shorter == CellLists(k - 1)
         IN  shorter \cup
             { Append(q, c) : q \in {r \in shorter : Len(r) = k - 1},
                              c \in 1..Len(RawCells) }

Sorted(q) == \A i \in 1..(Len(q) - 1) : q[i] <= q[i + 1]

EditCells == { [i \in 1..Len(q) |-> RawCells[q[i]]] : q \in {r \in CellLists(MaxDup) : Sorted(r)} }

NoEdit == [on |-> FALSE, year |-> 0, month |-> 0, cells |-> <<>>]
Edits ==
    {NoEdit} \cup
    [on : {TRUE}, year : Years, month : EditMonths, cells : EditCells]

(* The records of one (year, month) of the input file *)
CellRows(kind, edit, y, m) ==
    IF edit.on /\ edit.year = y /\ edit.month = m
    THEN [i \in 1..Len(edit.cells) |-> [year |-> y, month |-> m, cell |-> edit.cells[i]]]
    ELSE CASE kind[y] = "values"   -> <<[year |-> y, month |-> m, cell |-> NumCell(BaseValue(y, m))]>>
           [] kind[y] = "sentinel" -> <<[year |-> y, month |-> m, cell |-> NumCell(Sentinel)]>>
           [] OTHER                -> <<>>

RECURSIVE MonthRows(_, _, _, _)
MonthRows(kind, edit, y, m) ==
    IF m > NumMonths THEN <<>>
    ELSE CellRows(kind, edit, y, m) \o MonthRows(kind, edit, y, m + 1)

RECURSIVE YearRows(_, _, _)
YearRows(kind, edit, y) ==
    IF y \notin Years THEN <<>>
    ELSE MonthRows(kind, edit, y, 1) \o YearRows(kind, edit, y + 1)

Reverse(q) == [i \in 1..Len(q) |-> q[Len(q) + 1 - i]]

InputRows(kind, edit, reversed) ==
    LET rows == YearRows(kind, edit, 2021)
    IN  IF reversed THEN Reverse(rows) ELSE rows

----------------------------------------------------------------------------
(* reorganize_ods *)

RECURSIVE SortAsc(_)
SortAsc(S) ==
    IF S = {} THEN <<>>
    ELSE LET lo == CHOOSE x \in S : \A y \in S : x <= y
         IN  <<lo>> \o SortAsc(S \ {lo})

RECURSIVE SumVals(_)
SumVals(q) == IF q = <<>> THEN Num(0) ELSE RatAdd(Head(q), SumVals(Tail(q)))

(* Series.sum() and Series.mean(): NaN entries are skipped; the sum of no  *)
(* entry is 0, the mean of no entry is NaN.                                *)
NumsOf(q) == SelectSeq(q, IsNum)
SkipNaSum(q) == SumVals(NumsOf(q))
SkipNaMean(q) ==
    IF NumsOf(q) = <<>> THEN NaN ELSE RatDivInt(SumVals(NumsOf(q)), Len(NumsOf(q)))

(* The row 'Media Mensual' that line 73 adds to df holds NaN in every      *)
(* column (the assigned Series shares no label with df's columns): its key *)
(* and value are NaN, so no later groupby, sum or mean sees it, and it is  *)
(* left out of the frame below.                                            *)

(* pd.DataFrame(rows, columns=header): a short row is padded with NaN; the *)
(* construction fails when the widest row is not as wide as the header: no *)
(* row of a table of two or more columns holds its value cell, or a row of *)
(* a table of one column holds one.                                        *)
FrameFails(r) ==
    /\ Len(r.rows) > 0
    /\ IF Len(r.header) >= 2
       THEN \A i \in 1..Len(r.rows) : r.rows[i].cell.kind = "empty"
       ELSE \E i \in 1..Len(r.rows) : r.rows[i].cell.kind # "empty"

ReadFrame(r) ==
    [i \in 1..Len(r.rows) |->
        [year |-> r.rows[i].year, month |-> r.rows[i].month,
         val |-> IF r.rows[i].cell.kind = "empty" THEN NaN ELSE Num(r.rows[i].cell.v)]]

(* df.select_dtypes(include=['datetime']).columns[0] *)
HasDateColumn(r) == r.dated /\ Len(r.rows) > 0

(* df[data_column].replace(-9999, nan) *)
ReplaceSentinel(df) ==
    [i \in 1..Len(df) |->
        [df[i] EXCEPT !.val = IF df[i].val = Num(Sentinel) THEN NaN ELSE df[i].val]]

ValsOf(df) == [i \in 1..Len(df) |-> df[i].val]

YearGroup(df, y) == SelectSeq(df, LAMBDA row : row.year = y)
MonthGroup(df, m) == SelectSeq(df, LAMBDA row : row.month = m)

(* pd.pivot_table(df, values, index='Year', columns=month): the mean of    *)
(* each (year, month) group; groups whose mean is NaN are dropped before   *)
(* the table is laid out, so a year or a month left with no group is no    *)
(* row or column of it.                                                    *)
PivotCell(df, y, m) == SkipNaMean(ValsOf(MonthGroup(YearGroup(df, y), m)))

KeptGroups(df) ==
    { <<df[i].year, df[i].month>> : i \in {j \in 1..Len(df) : IsNum(df[j].val)} }

PivotYears(df) == SortAsc({g[1] : g \in KeptGroups(df)})
PivotMonths(df) == SortAsc({g[2] : g \in KeptGroups(df)})

(* calendar.month_name[1..12] under es_ES, capitalized *)
month_names ==
    << "Enero", "Febrero", "Marzo", "Abril", "Mayo", "Junio", "Julio",
       "Agosto", "Septiembre", "Octubre", "Noviembre", "Diciembre" >>

(* df_reorganized.loc[-1] = month_names fails unless the table has as many *)
(* columns as there are month names.                                       *)
HeaderRowFits(df) == Len(PivotMonths(df)) = Len(month_names)

NoSortIndex(keys) == keys

(* df_reorganized.sort_index(inplace=True) *)
SortIndex(keys) == SortAsc({keys[i] : i \in 1..Len(keys)})

(* .loc[-1] = month_names appends the key -1 below the year rows; the index *)
(* is then sorted.                                                          *)
YearIndex(df) == SortIndex(Append(PivotYears(df), HeaderKey))

YearSumUngrouped(df, y) == SkipNaSum(ValsOf(df))

(* df.groupby(df['Year'])[data_column].sum() *)
YearSum(df, y) == SkipNaSum(ValsOf(YearGroup(df, y)))

(* df.groupby(month)[data_column].mean() *)
MonthMean(df, m) == SkipNaMean(ValsOf(MonthGroup(df, m)))

(* The column 'Suma Anual' before the mean row's own cell is set: the label *)
(* on the header row, each year's sum, NaN on the row 'Media Mensual'.      *)
SumaAnualColumn(df) ==
    LET idx == YearIndex(df)
    IN  [i \in 1..(Len(idx) + 1) |->
            IF i > Len(idx) THEN NaN
            ELSE IF idx[i] = HeaderKey THEN Text("Suma Anual")
            ELSE YearSum(df, idx[i])]

(* df_reorganized.iloc[2:, -1] ... .astype(float).mean() *)
MeanYearlySum(col) ==
    SkipNaMean([i \in 1..(IF Len(col) > 2 THEN Len(col) - 2 ELSE 0) |-> col[i + 2]])

(* One row of the pivoted table under key k, in column order; suma is the *)
(* row's cell of the column 'Suma Anual'.                                 *)
TableRow(df, cols, k, suma) ==
    [j \in 1..(Len(cols) + 1) |->
        IF j > Len(cols) THEN suma
        ELSE IF k = HeaderKey THEN Text(month_names[j])
        ELSE PivotCell(df, k, cols[j])]

(* df_reorganized.loc['Media Mensual'] = ...mean(), then its last cell *)
MeanRow(df, cols, suma) ==
    [j \in 1..(Len(cols) + 1) |->
        IF j > Len(cols) THEN MeanYearlySum(suma) ELSE MonthMean(df, cols[j])]

(* The DataFrame reorganize_ods returns *)
Pivoted(df) ==
    LET idx == YearIndex(df)
        cols == PivotMonths(df)
        suma == SumaAnualColumn(df)
    IN  [ok |-> TRUE,
         index |-> [i \in 1..(Len(idx) + 1) |->
                       IF i > Len(idx) THEN StrKey("Media Mensual") ELSE IntKey(idx[i])],
         columns |-> [j \in 1..(Len(cols) + 1) |->
                       IF j > Len(cols) THEN StrKey("Suma Anual") ELSE IntKey(cols[j])],
         rows |-> [i \in 1..(Len(idx) + 1) |->
                       IF i > Len(idx) THEN MeanRow(df, cols, suma)
                       ELSE TableRow(df, cols, idx[i], suma[i])]]

KeyCell(k) == IF k.s = "" THEN Num(k.i) ELSE Text(k.s)

(* data[sheet_name][0][1] *)
TitleLabel(r) == r.header[2]

(* df_reorganized.reset_index().values.tolist(), its first cell replaced *)
ReorganizedData(r, tbl) ==
    [i \in 1..Len(tbl.rows) |->
        <<IF i = 1 THEN Text(TitleLabel(r)) ELSE KeyCell(tbl.index[i])>> \o tbl.rows[i]]

Frame(r) == ReplaceSentinel(ReadFrame(r))

ReorganizeFails(r) ==
    \/ FrameFails(r)
    \/ ~HasDateColumn(r)
    \/ ~HeaderRowFits(Frame(r))
    \/ Len(r.header) < 2

(* The exception reorganize_ods ends with, by the first statement that    *)
(* raises.  The data column of a table of a single column is its column   *)
(* of dates: when pivot_table averages it, the header row fits only a     *)
(* table of twelve months, and the yearly sum of dates fails.             *)
NoError == [type |-> "", line |-> 0]
Raised(type, line) == [type |-> type, line |-> line]

RowMonths(r) == {r.rows[i].month : i \in 1..Len(r.rows)}

ErrorOf(r) ==
    IF FrameFails(r) THEN Raised("ValueError", 55)
    ELSE IF ~HasDateColumn(r) THEN Raised("IndexError", 58)
    ELSE IF Len(r.header) < 2
         THEN IF Cardinality(RowMonths(r)) # Len(month_names)
              THEN Raised("ValueError", 83)
              ELSE Raised("TypeError", 87)
    ELSE IF ~HeaderRowFits(Frame(r)) THEN Raised("ValueError", 83)
    ELSE NoError

(* Whether pivot_table averages a column of dates or rejects it depends on *)
(* the pandas the program runs with.                                       *)
ErrorsOf(r) ==
    IF Len(r.header) < 2 /\ ~FrameFails(r) /\ HasDateColumn(r)
    THEN {ErrorOf(r), Raised("DataError", 77)}
    ELSE {ErrorOf(r)}

NoTable == [ok |-> FALSE, index |-> <<>>, columns |-> <<>>, rows |-> <<>>]
NoFile == <<>>

(* An output file left by an earlier run *)
OldFile == <<<<Text("old")>>>>

TruncatedOutput(fails, old, data) == IF fails THEN NoFile ELSE data

(* ods.save_data(output_file_path, data) is the last statement of the try  *)
(* block: the output file changes only when no statement before it raised. *)
Output(fails, old, data) == IF fails THEN old ELSE data

(* create_graph *)

RatNeg(a) == [a EXCEPT !.n = -a.n]
RatSub(a, b) == RatAdd(a, RatNeg(b))
RatMul(a, b) == Rat(a.n * b.n, a.d * b.d)
RatLess(a, b) == a.n * b.d < b.n * a.d

RECURSIVE MaxOf(_)
MaxOf(q) ==
    IF Len(q) = 1 THEN q[1]
    ELSE LET m == MaxOf(Tail(q)) IN IF RatLess(m, q[1]) THEN q[1] ELSE m

RECURSIVE MinOf(_)
MinOf(q) ==
    IF Len(q) = 1 THEN q[1]
    ELSE LET m == MinOf(Tail(q)) IN IF RatLess(q[1], m) THEN q[1] ELSE m

padding_factor == Rat(1, 10)
padding_months == Rat(7, 10)
bar_width == Rat(8, 10)

(* No year asked for yet: a value no request holds *)
NoYear == HeaderKey - 1
NoChart == [drawn |-> FALSE]

AcceptsAnyYear(tbl, year) == TRUE

(* year in df_reorganized.index *)
YearInIndex(tbl, year) == \E i \in 1..Len(tbl.index) : tbl.index[i] = IntKey(year)

(* df_reorganized.loc[year] *)
SelectedData(tbl, year) ==
    tbl.rows[CHOOSE i \in 1..Len(tbl.index) : tbl.index[i] = IntKey(year)]

WholeRow(sel) == sel

(* selected_data[:-1] *)
MonthValues(sel) == SubSeq(sel, 1, Len(sel) - 1)

(* .astype(float) raises on a text cell *)
AllFloat(q) == \A i \in 1..Len(q) : q[i].s = ""

(* months = [month_names[int(month) - 1] for month in selected_data.index[:-1]] *)
MonthLabels(tbl) == [j \in 1..(Len(tbl.columns) - 1) |-> month_names[tbl.columns[j].i]]

ZeroForNaN(values) == [i \in 1..Len(values) |-> IF IsNum(values[i]) THEN values[i] ELSE Num(0)]

(* np.where(np.isnan(values), np.nan, values) *)
CleanValues(values) == [i \in 1..Len(values) |-> IF IsNum(values[i]) THEN values[i] ELSE NaN]

AnnotateAll(values) == {[at |-> i - 1, text |-> values[i]] : i \in 1..Len(values)}

(* for i, v in enumerate(values): if not np.isnan(v): plt.text(i, v, str(v)) *)
Annotations(values) ==
    {[at |-> i - 1, text |-> values[i]] : i \in {k \in 1..Len(values) : IsNum(values[k])}}

(* values[~np.isnan(values)] *)
ValidValues(values) == SelectSeq(values, IsNum)

(* plt.ylim(bottom=0, top=max_value + y_padding + np.max(valid_values) * 0.1) *)
YLim(valid) ==
    LET min_value == MinOf(valid)
        max_value == MaxOf(valid)
        y_padding == RatMul(RatSub(max_value, min_value), padding_factor)
    IN  [bottom |-> Num(0),
         top |-> RatAdd(RatAdd(max_value, y_padding), RatMul(MaxOf(valid), Rat(1, 10)))]

(* plt.xlim(left=-padding_months, right=len(months) - 1 + padding_months) *)
XLim(months) ==
    [left |-> RatNeg(padding_months),
     right |-> RatAdd(Num(Len(months) - 1), padding_months)]

(* The y label and the title: 'Chuvia' gets its unit and '(lluvia)' *)
YAxisLabel(title_label) == [label |-> title_label, unit |-> title_label = "Chuvia"]
Title(title_label, year) == [label |-> title_label, lluvia |-> title_label = "Chuvia", year |-> year]

(* What plt holds once the statements up to plt.bar have run; the limits  *)
(* are set and the figure is shown when a value is not NaN.               *)
Chart(r, tbl, year) ==
    LET values == CleanValues(MonthValues(SelectedData(tbl, year)))
        months == MonthLabels(tbl)
        valid == ValidValues(values)
    IN  [drawn |-> TRUE,
         index |-> [i \in 1..Len(months) |-> i - 1],
         values |-> values,
         width |-> bar_width,
         xlabel |-> "Meses",
         ylabel |-> YAxisLabel(TitleLabel(r)),
         title |-> Title(TitleLabel(r), year),
         xticks |-> months,
         annotations |-> Annotations(values),
         ylim |-> IF valid = <<>> THEN [bottom |-> NaN, top |-> NaN] ELSE YLim(valid),
         xlim |-> IF valid = <<>> THEN [left |-> NaN, right |-> NaN] ELSE XLim(months),
         shown |-> valid # <<>>]

(* The exception create_graph ends with once reorganize_ods has returned *)
(* tbl: KeyError is caught and printed, a ValueError leaves the function. *)
RowError(tbl, year) ==
    IF ~YearInIndex(tbl, year) THEN Raised("KeyError", 138)
    ELSE IF ~AllFloat(MonthValues(SelectedData(tbl, year))) THEN Raised("ValueError", 142)
    ELSE IF ValidValues(CleanValues(MonthValues(SelectedData(tbl, year)))) = <<>>
         THEN Raised("ValueError", 184)
    ELSE NoError

(* Whether create_graph gets as far as plt.bar *)
GraphDraws(tbl, year) == RowError(tbl, year).line \in {0, 184}

None == "None"
NoLabel == [shown |-> FALSE, path |-> ""]
NoMessage == [key |-> "", language |-> "english", color |-> "green", arg |-> NoYear]
SavePaths == {"out.ods"}

(* MeteorologicalApp.__init__ *)
GuiStart ==
    /\ input_file = None
    /\ output_ods_file = None
    /\ current_language = "english"
    /\ dark_mode = FALSE
    /\ year_entry = <<>>
    /\ message = NoMessage
    /\ input_file_label = NoLabel
    /\ output_file_label = NoLabel
    /\ files = [p \in SavePaths |-> NoFile]

Init ==
    /\ \E kind \in [Years -> YearKinds], edit \in Edits, reversed \in BOOLEAN, header \in Headers :
          raw = [header |-> header.names, dated |-> header.dated,
                 rows |-> InputRows(kind, edit, reversed)]
    /\ pc = "ready"
    /\ df_reorganized = NoTable
    /\ saved = NoFile
    /\ err = NoError
    /\ asked = NoYear
    /\ chart = NoChart
    /\ GuiStart

reorganize_ods ==
    /\ pc = "ready"
    /\ LET fails == ReorganizeFails(raw)
           tbl == Pivoted(Frame(raw))
       IN  /\ pc' = IF fails THEN "failed" ELSE "done"
           /\ df_reorganized' = IF fails THEN df_reorganized ELSE tbl
           /\ saved' = Output(fails, saved, ReorganizedData(raw, tbl))
    /\ err' \in ErrorsOf(raw)
    /\ UNCHANGED <<raw, asked, chart, gui>>

Next == reorganize_ods

Spec == Init /\ [][Next]_vars

(* The script of copy9_ods_and_graphs.py: reorganize_ods, then create_graph, *)
(* which reads and reorganizes the input again.                             *)
AskYears == {HeaderKey, 2020} \cup Years

create_graph(year) ==
    /\ pc \in {"ready", "done"}
    /\ pc' = "graphed"
    /\ asked' = year
    /\ IF Len(raw.header) < 2
       THEN /\ err' = Raised("IndexError", 132)
            /\ chart' = NoChart
            /\ UNCHANGED <<df_reorganized, saved>>
       ELSE LET fails == ReorganizeFails(raw)
                tbl == Pivoted(Frame(raw))
            IN  /\ df_reorganized' = IF fails THEN df_reorganized ELSE tbl
                /\ saved' = Output(fails, saved, ReorganizedData(raw, tbl))
                /\ err' \in IF fails THEN ErrorsOf(raw) ELSE {RowError(tbl, year)}
                /\ chart' = IF ~fails /\ GraphDraws(tbl, year)
                            THEN Chart(raw, tbl, year) ELSE NoChart
    /\ UNCHANGED <<raw, gui>>

(* The charts are drawn from series with at most one record per month; the *)
(* table may have a single column, and the output file may exist already.  *)
ChartEdits == {e \in Edits : Len(e.cells) <= 1}
ChartHeaders == Headers \cup {[names |-> <<"Fecha">>, dated |-> TRUE]}

ChartInit ==
    /\ \E kind \in [Years -> YearKinds], edit \in ChartEdits, header \in ChartHeaders :
          raw = [header |-> header.names, dated |-> header.dated,
                 rows |-> InputRows(kind, edit, FALSE)]
    /\ pc = "ready"
    /\ df_reorganized = NoTable
    /\ saved \in {NoFile, OldFile}
    /\ err = NoError
    /\ asked = NoYear
    /\ chart = NoChart
    /\ GuiStart

ChartNext ==
    \/ reorganize_ods
    \/ \E year \in AskYears : create_graph(year)

ChartSpec == ChartInit /\ [][ChartNext]_vars

----------------------------------------------------------------------------
(* MeteorologicalApp: the callbacks of the window.  pc names the return   *)
(* the last callback took, err the exception it ended with, asked the     *)
(* year it passed to create_graph and chart the figure that was shown.    *)

(* The files the input dialog offers: every month of every year, the      *)
(* first year only, and the first year without a record for December.     *)
InputPaths == {"full.csv", "short.csv", "gap.csv"}
AllYears == [y \in Years |-> "values"]
FirstYear == [y \in Years |-> IF y = 2021 THEN "values" ELSE "none"]
NoDecember == [on |-> TRUE, year |-> 2021, month |-> NumMonths, cells |-> <<>>]

InputFiles ==
    [p \in InputPaths |->
        [header |-> <<"Fecha", "Chuvia">>,
         dated |-> TRUE,
         rows |-> CASE p = "full.csv"  -> InputRows(AllYears, NoEdit, FALSE)
                    [] p = "short.csv" -> InputRows(FirstYear, NoEdit, FALSE)
                    [] OTHER           -> InputRows(FirstYear, NoDecember, FALSE)]]

(* reorganize_ods(input_file, ...) for each of the files *)
Reorganized ==
    [p \in InputPaths |->
        IF ReorganizeFails(InputFiles[p]) THEN NoTable ELSE Pivoted(Frame(InputFiles[p]))]

NoInput == [header |-> <<>>, dated |-> FALSE, rows |-> <<>>]

(* int(text): blanks around an optional sign and decimal digits *)
Digits == <<"0", "1", "2", "3", "4", "5", "6", "7", "8", "9">>
IsDigit(c) == \E d \in 1..Len(Digits) : Digits[d] = c
DigitValue(c) == (CHOOSE d \in 1..Len(Digits) : Digits[d] = c) - 1

RECURSIVE Strip(_)
Strip(text) ==
    IF text = <<>> THEN text
    ELSE IF Head(text) = " " THEN Strip(Tail(text))
    ELSE IF text[Len(text)] = " " THEN Strip(SubSeq(text, 1, Len(text) - 1))
    ELSE text

RECURSIVE DigitsValue(_)
DigitsValue(q) ==
    IF q = <<>> THEN 0
    ELSE DigitsValue(SubSeq(q, 1, Len(q) - 1)) * Len(Digits) + DigitValue(q[Len(q)])

ParseInt(text) ==
    LET t == Strip(text)
        signed == t # <<>> /\ Head(t) \in {"+", "-"}
        body == IF signed THEN Tail(t) ELSE t
        ok == body # <<>> /\ \A i \in 1..Len(body) : IsDigit(body[i])
    IN  [ok |-> ok,
         value |-> IF ~ok THEN 0
                   ELSE IF signed /\ Head(t) = "-" THEN -DigitsValue(body)
                   ELSE DigitsValue(body)]

(* What the user types into year_entry *)
YearEntries ==
    { <<>>,
      <<"2", "0", "2", "1">>,
      <<" ", "2", "0", "2", "2">>,
      <<"-", "1">>,
      <<"2", "0", "x">> }

(* not input_file, not output_file: None and the empty path of a cancelled *)
(* dialog alike                                                            *)
Not(path) == path \in {None, ""}

NeverCancelled(path) == FALSE

(* if not output_file: return, on the answer of the save dialog *)
SaveCancelled(path) == Not(path)

YearAlwaysFound(tbl, year) == TRUE

(* if year not in df_reorganized.index, in create_gui_graph *)
YearFound(tbl, year) == YearInIndex(tbl, year)

(* show_message: the text is looked up in the language of the moment *)
show_message(key, color, arg) ==
    [key |-> key, language |-> current_language, color |-> color, arg |-> arg]

Label(path) == [shown |-> TRUE, path |-> path]

(* A callback that raises nothing, calls no create_graph and shows no figure *)
Returns(at) ==
    /\ pc' = at
    /\ err' = NoError
    /\ asked' = NoYear
    /\ chart' = NoChart

GuiInit ==
    /\ raw = NoInput
    /\ pc = "ready"
    /\ df_reorganized = NoTable
    /\ saved = NoFile
    /\ err = NoError
    /\ asked = NoYear
    /\ chart = NoChart
    /\ GuiStart

browse_input(path) ==
    /\ input_file' = path
    /\ input_file_label' = Label(path)
    /\ Returns("browse_input")
    /\ UNCHANGED <<raw, df_reorganized, saved, output_ods_file, current_language,
                   dark_mode, year_entry, message, output_file_label, files>>

(* The user edits the entry; no callback runs *)
enter_year(text) ==
    /\ year_entry' = text
    /\ Returns("enter_year")
    /\ UNCHANGED <<raw, df_reorganized, saved, input_file, output_ods_file,
                   current_language, dark_mode, message, input_file_label,
                   output_file_label, files>>

toggle_dark_mode ==
    /\ dark_mode' = ~dark_mode
    /\ Returns("toggle_dark_mode")
    /\ UNCHANGED <<raw, df_reorganized, saved, input_file, output_ods_file,
                   current_language, year_entry, message, input_file_label,
                   output_file_label, files>>

(* update_language sets the two file labels back to their bare captions *)
switch_language ==
    /\ current_language' = IF current_language = "english" THEN "spanish" ELSE "english"
    /\ input_file_label' = NoLabel
    /\ output_file_label' = NoLabel
    /\ Returns("switch_language")
    /\ UNCHANGED <<raw, df_reorganized, saved, input_file, output_ods_file,
                   dark_mode, year_entry, message, files>>

(* answer is what asksaveasfilename returns *)
create_ods(answer) ==
    /\ IF Not(input_file)
       THEN /\ message' = show_message("select_input_file", "red", NoYear)
            /\ pc' = "ods_no_input"
            /\ err' = NoError
            /\ UNCHANGED <<output_file_label, output_ods_file, files>>
       ELSE /\ output_file_label' = Label(answer)
            /\ IF SaveCancelled(answer)
               THEN /\ pc' = "ods_cancelled"
                    /\ err' = NoError
                    /\ UNCHANGED <<output_ods_file, files, message>>
               ELSE LET r == InputFiles[input_file]
                        fails == ReorganizeFails(r)
                    IN  /\ files' = [files EXCEPT ![answer] =
                               Output(fails, @, ReorganizedData(r, Reorganized[input_file]))]
                        /\ err' \in ErrorsOf(r)
                        /\ pc' = IF fails THEN "ods_failed" ELSE "ods_created"
                        /\ output_ods_file' = IF fails THEN output_ods_file ELSE answer
                        /\ message' = IF fails THEN message
                                      ELSE show_message("ods_created", "green", NoYear)
    /\ asked' = NoYear
    /\ chart' = NoChart
    /\ UNCHANGED <<raw, df_reorganized, saved, input_file, current_language,
                   dark_mode, year_entry, input_file_label>>

(* create_graph reads and reorganizes input_file once more, writing the    *)
(* same table again; its KeyError is caught inside it, any other exception *)
(* leaves create_gui_graph before the message.                             *)
create_gui_graph ==
    /\ IF Not(input_file)
       THEN /\ message' = show_message("select_ods_file", "red", NoYear)
            /\ Returns("graph_no_input")
            /\ UNCHANGED files
       ELSE IF Not(output_ods_file)
       THEN /\ message' = show_message("ods_not_found", "red", NoYear)
            /\ Returns("graph_no_ods")
            /\ UNCHANGED files
       ELSE IF ~ParseInt(year_entry).ok
       THEN /\ message' = show_message("enter_valid_year", "red", NoYear)
            /\ Returns("graph_bad_year")
            /\ UNCHANGED files
       ELSE LET year == ParseInt(year_entry).value
                r == InputFiles[input_file]
                fails == ReorganizeFails(r)
                tbl == Reorganized[input_file]
            IN  /\ files' = [files EXCEPT ![output_ods_file] =
                                 Output(fails, @, ReorganizedData(r, tbl))]
                /\ IF fails
                   THEN /\ pc' = "graph_reorganize_failed"
                        /\ err' \in ErrorsOf(r)
                        /\ asked' = NoYear
                        /\ chart' = NoChart
                        /\ UNCHANGED message
                   ELSE IF ~YearFound(tbl, year)
                   THEN /\ message' = show_message("year_not_found", "red", year)
                        /\ Returns("graph_year_not_found")
                   ELSE /\ asked' = year
                        /\ err' = RowError(tbl, year)
                        /\ chart' = IF GraphDraws(tbl, year) THEN Chart(r, tbl, year) ELSE NoChart
                        /\ pc' = IF RowError(tbl, year).type \in {"", "KeyError"}
                                 THEN "graph_created" ELSE "graph_raised"
                        /\ message' = IF RowError(tbl, year).type \in {"", "KeyError"}
                                      THEN show_message("graph_created", "green", NoYear)
                                      ELSE message
    /\ UNCHANGED <<raw, df_reorganized, saved, input_file, output_ods_file,
                   current_language, dark_mode, year_entry, input_file_label,
                   output_file_label>>

GuiNext ==
    \/ \E path \in InputPaths \cup {""} : browse_input(path)
    \/ \E text \in YearEntries : enter_year(text)
    \/ toggle_dark_mode
    \/ switch_language
    \/ \E answer \in SavePaths \cup {""} : create_ods(answer)
    \/ create_gui_graph

GuiSpec == GuiInit /\ [][GuiNext]_vars

----------------------------------------------------------------------------
(* Reading a table and an input series, for the properties below *)

MeanKey == StrKey("Media Mensual")
SumKey == StrKey("Suma Anual")

HasRow(tbl, k) == \E i \in 1..Len(tbl.index) : tbl.index[i] = k
HasCol(tbl, k) == \E j \in 1..Len(tbl.columns) : tbl.columns[j] = k
RowPos(tbl, k) == CHOOSE i \in 1..Len(tbl.index) : tbl.index[i] = k
ColPos(tbl, k) == CHOOSE j \in 1..Len(tbl.columns) : tbl.columns[j] = k
CellAt(tbl, rk, ck) == tbl.rows[RowPos(tbl, rk)][ColPos(tbl, ck)]

(* The keys of the year rows: every integer key but the header row's *)
TableYears(tbl) ==
    { tbl.index[i].i : i \in {p \in 1..Len(tbl.index) :
                               tbl.index[p].s = "" /\ tbl.index[p].i # HeaderKey} }

RECURSIVE SumOver(_, _)
SumOver(S, f) ==
    IF S = {} THEN Num(0)
    ELSE LET x == CHOOSE x \in S : TRUE
         IN  RatAdd(f[x], SumOver(S \ {x}, f))

MeanOver(S, f) == RatDivInt(SumOver(S, f), Cardinality(S))

IsPresent(c) == c.kind = "num" /\ c.v # Sentinel
RecordsAt(r, y, m) == {i \in 1..Len(r.rows) : r.rows[i].year = y /\ r.rows[i].month = m}
PresentAt(r, y, m) == {i \in RecordsAt(r, y, m) : IsPresent(r.rows[i].cell)}
InputYears(r) == {r.rows[i].year : i \in 1..Len(r.rows)}
InputValue(r) == [i \in 1..Len(r.rows) |-> Num(r.rows[i].cell.v)]

----------------------------------------------------------------------------
(* C1: the cell of the row Media Mensual under Suma Anual is the arithmetic *)
(* mean of the Suma Anual cells of all the year rows of the table, the      *)
(* earliest year included.                                                  *)
C1_MeanOfAllAnnualSums ==
    pc = "done" =>
        CellAt(df_reorganized, MeanKey, SumKey) =
            MeanOver(TableYears(df_reorganized),
                     [y \in TableYears(df_reorganized) |->
                         CellAt(df_reorganized, IntKey(y), SumKey)])

(* C2: every year row's Suma Anual is the sum of the Present cells among    *)
(* the twelve month cells of that row.                                      *)
C2_AnnualSumIsRowSum ==
    pc = "done" =>
        \A y \in TableYears(df_reorganized) :
            LET present == {m \in Months : /\ HasCol(df_reorganized, IntKey(m))
                                           /\ IsNum(CellAt(df_reorganized, IntKey(y), IntKey(m)))}
            IN  CellAt(df_reorganized, IntKey(y), SumKey) =
                    SumOver(present, [m \in present |->
                                         CellAt(df_reorganized, IntKey(y), IntKey(m))])

(* C3: for every month column with a Present cell, the Media Mensual cell   *)
(* is the arithmetic mean of the Present cells of that column over the year *)
(* rows.                                                                    *)
C3_MonthlyMeanIsColumnMean ==
    pc = "done" =>
        \A m \in Months :
            LET present == {y \in TableYears(df_reorganized) :
                               /\ HasCol(df_reorganized, IntKey(m))
                               /\ IsNum(CellAt(df_reorganized, IntKey(y), IntKey(m)))}
            IN  present # {} =>
                    CellAt(df_reorganized, MeanKey, IntKey(m)) =
                        MeanOver(present, [y \in present |->
                                             CellAt(df_reorganized, IntKey(y), IntKey(m))])

(* C4: a cell whose (year, month) holds two or more input records is the    *)
(* sum of the Present values among them.                                    *)
C4_DuplicatesAreSummed ==
    pc = "done" =>
        \A y \in InputYears(raw), m \in Months :
            (Cardinality(RecordsAt(raw, y, m)) >= 2 /\ PresentAt(raw, y, m) # {}) =>
                /\ HasRow(df_reorganized, IntKey(y))
                /\ HasCol(df_reorganized, IntKey(m))
                /\ CellAt(df_reorganized, IntKey(y), IntKey(m)) =
                       SumOver(PresentAt(raw, y, m), InputValue(raw))

(* C5: a year all of whose records are Missing, beside years with Present  *)
(* values, keeps its row: twelve Missing month cells and Suma Anual 0.     *)
C5_AllMissingYearKeepsRow ==
    pc = "done" =>
        \A y \in InputYears(raw) :
            (\A m \in Months : PresentAt(raw, y, m) = {}) =>
                /\ HasRow(df_reorganized, IntKey(y))
                /\ \A m \in Months :
                       /\ HasCol(df_reorganized, IntKey(m))
                       /\ CellAt(df_reorganized, IntKey(y), IntKey(m)) = NaN
                /\ CellAt(df_reorganized, IntKey(y), SumKey) = Num(0)

(* C6: when some month has no Present value in any year of a dated series   *)
(* that holds Present values, reorganize completes and returns a table with *)
(* all twelve month columns, that month's cells and mean being Missing.     *)
C6_EmptyMonthStillCompletes ==
    (/\ pc # "ready"
     /\ raw.dated
     /\ \E y \in InputYears(raw), m \in Months : PresentAt(raw, y, m) # {}) =>
        \A m \in Months :
            (\A y \in InputYears(raw) : PresentAt(raw, y, m) = {}) =>
                /\ pc = "done"
                /\ \A k \in Months : HasCol(df_reorganized, IntKey(k))
                /\ \A y \in TableYears(df_reorganized) :
                       CellAt(df_reorganized, IntKey(y), IntKey(m)) = NaN
                /\ CellAt(df_reorganized, MeanKey, IntKey(m)) = NaN
(* C7: rows are the header row (month names, then "Suma Anual"), the year  *)
(* rows in strictly ascending order, and the row Media Mensual last; the   *)
(* columns are the months 1..12 in order, then Suma Anual; the saved rows  *)
(* follow the same order.                                                  *)
C7_RowColumnOrder ==
    pc = "done" =>
        LET tbl == df_reorganized
            n == Len(tbl.index)
            k == Len(tbl.columns)
        IN  /\ n >= 3
            /\ tbl.index[1] = IntKey(HeaderKey)
            /\ tbl.index[n] = MeanKey
            /\ \A i \in 2..(n - 1) : tbl.index[i].s = "" /\ tbl.index[i].i # HeaderKey
            /\ \A i \in 2..(n - 2) : tbl.index[i].i < tbl.index[i + 1].i
            /\ k = NumMonths + 1
            /\ \A j \in 1..NumMonths : tbl.columns[j] = IntKey(j)
            /\ tbl.columns[k] = SumKey
            /\ \A j \in 1..NumMonths : tbl.rows[1][j] = Text(month_names[j])
            /\ tbl.rows[1][k] = Text("Suma Anual")
            /\ Len(saved) = n
            /\ \A i \in 1..n : Tail(saved[i]) = tbl.rows[i]
            /\ \A i \in 2..n : saved[i][1] = KeyCell(tbl.index[i])

(* C7's case: a table of two or more years made from records listed from   *)
(* the latest year back to the earliest.                                   *)
C7_Witness ==
    /\ pc = "done"
    /\ Len(df_reorganized.index) >= 4
    /\ raw.rows[1].year > raw.rows[Len(raw.rows)].year

WithSentinel(r) ==
    [r EXCEPT !.rows = [i \in 1..Len(r.rows) |->
        [r.rows[i] EXCEPT !.cell = IF r.rows[i].cell = EmptyCell
                                   THEN NumCell(Sentinel) ELSE r.rows[i].cell]]]

WithValue(r, i, v) == [r EXCEPT !.rows[i].cell = NumCell(v)]

Outcome(r) == IF ReorganizeFails(r) THEN NoTable ELSE Pivoted(Frame(r))

(* C8: an empty value cell and a -9999 cell are treated alike: the series  *)
(* with -9999 in place of every empty cell gives the same table; and       *)
(* neither makes reorganize fail: reorganize succeeds wherever it would    *)
(* succeed with a Present value in the place of such a cell.               *)
C8_EmptyAndSentinelAlike ==
    pc # "ready" =>
        /\ df_reorganized = Outcome(WithSentinel(raw))
        /\ \A i \in 1..Len(raw.rows) :
               (~IsPresent(raw.rows[i].cell) /\ ~ReorganizeFails(WithValue(raw, i, 1)))
                   => pc = "done"

RoundTripInput(r) ==
    /\ r.dated
    /\ Len(r.rows) > 0
    /\ \A y \in InputYears(r), m \in Months :
           /\ Cardinality(RecordsAt(r, y, m)) = 1
           /\ PresentAt(r, y, m) = RecordsAt(r, y, m)

(* C9: a series with exactly one Present record for each (year, month) of  *)
(* its N years gives exactly those N year rows, each month cell being the  *)
(* input value of its (year, month) and each Suma Anual the sum of the     *)
(* year's twelve input values.                                             *)
C9_RoundTrip ==
    (pc # "ready" /\ RoundTripInput(raw)) =>
        /\ pc = "done"
        /\ TableYears(df_reorganized) = InputYears(raw)
        /\ Len(df_reorganized.index) = Cardinality(InputYears(raw)) + 2
        /\ \A y \in InputYears(raw) :
               /\ \A m \in Months :
                      CellAt(df_reorganized, IntKey(y), IntKey(m)) =
                          InputValue(raw)[CHOOSE i \in RecordsAt(raw, y, m) : TRUE]
               /\ CellAt(df_reorganized, IntKey(y), SumKey) =
                      SumOver({i \in 1..Len(raw.rows) : raw.rows[i].year = y}, InputValue(raw))

(* C9's case: reorganize has run on a round-trip series of two or more years *)
C9_Witness ==
    /\ pc = "done"
    /\ RoundTripInput(raw)
    /\ Cardinality(InputYears(raw)) >= 2

(* C10: the first cell of the saved header row is the header of the input  *)
(* column whose values were aggregated (the last column).                  *)
C10_LabelIsDataColumn ==
    pc = "done" => saved[1][1] = Text(raw.header[Len(raw.header)])
----------------------------------------------------------------------------
(* create_graph has run and its reorganize_ods returned a table *)
Graphed == pc = "graphed" /\ ~ReorganizeFails(raw)

YearNotFound == Raised("KeyError", 138)

(* C11: every requested integer year that is not the key of a year row is  *)
(* rejected with the year-not-found error and reaches no chart-building    *)
(* step; the header row's key -1 is no year.                               *)
C11_OnlyDataYearsAccepted ==
    (Graphed /\ asked \notin TableYears(df_reorganized)) =>
        /\ err = YearNotFound
        /\ chart = NoChart

(* C12: asking for a year of the input whose twelve month cells are all    *)
(* Missing fails with an error of its own kind, not year-not-found; no     *)
(* chart is drawn and the failure is not one of the max/min computation.   *)
C12_AllMissingYearInsufficientData ==
    (/\ Graphed
     /\ asked \in InputYears(raw)
     /\ \A m \in Months : PresentAt(raw, asked, m) = {}) =>
        /\ err # NoError
        /\ err # YearNotFound
        /\ err.line # 184
        /\ chart = NoChart

PresentMonths(tbl, year) ==
    {m \in Months : IsNum(CellAt(tbl, IntKey(year), IntKey(m)))}

(* C13: for a year row with a Present month cell the y axis runs from 0 to *)
(* max*1.1 + (max - min)*0.1, max and min taken over the Present month     *)
(* cells only, and the x axis from -0.7 to 11.7.                           *)
C13_AxisBounds ==
    (Graphed /\ asked \in TableYears(df_reorganized)) =>
        LET tbl == df_reorganized
            pm == PresentMonths(tbl, asked)
            cell(m) == CellAt(tbl, IntKey(asked), IntKey(m))
            hi == cell(CHOOSE m \in pm : \A k \in pm : ~RatLess(cell(m), cell(k)))
            lo == cell(CHOOSE m \in pm : \A k \in pm : ~RatLess(cell(k), cell(m)))
        IN  /\ pm # {}
            /\ chart.drawn
            /\ chart.shown
            /\ chart.ylim.bottom = Num(0)
            /\ chart.ylim.top =
                   RatAdd(RatMul(hi, Rat(11, 10)), RatMul(RatSub(hi, lo), Rat(1, 10)))
            /\ chart.xlim.left = Rat(-7, 10)
            /\ chart.xlim.right = Rat(117, 10)

(* C13's case: a chart shown for a year whose month cells differ and whose *)
(* Suma Anual exceeds each of them.                                        *)
C13_Witness ==
    /\ Graphed
    /\ asked \in TableYears(df_reorganized)
    /\ chart.drawn
    /\ \E m, k \in PresentMonths(df_reorganized, asked) :
           RatLess(CellAt(df_reorganized, IntKey(asked), IntKey(m)),
                   CellAt(df_reorganized, IntKey(asked), IntKey(k)))
    /\ \A m \in PresentMonths(df_reorganized, asked) :
           RatLess(CellAt(df_reorganized, IntKey(asked), IntKey(m)),
                   CellAt(df_reorganized, IntKey(asked), SumKey))

(* C14: the series handed to the renderer has twelve entries, entry i the  *)
(* cell of month i+1 of the year, Suma Anual left out; a Missing cell is   *)
(* passed as NaN, never 0; a bar is annotated iff its cell is Present.     *)
C14_TwelveMonthSeries ==
    (Graphed /\ asked \in TableYears(df_reorganized)) =>
        /\ chart.drawn
        /\ Len(chart.values) = NumMonths
        /\ chart.index = [i \in 1..NumMonths |-> i - 1]
        /\ chart.xticks = month_names
        /\ \A i \in 1..NumMonths :
               /\ chart.values[i] = CellAt(df_reorganized, IntKey(asked), IntKey(i))
               /\ (\E a \in chart.annotations : a.at = i - 1)
                      <=> IsNum(CellAt(df_reorganized, IntKey(asked), IntKey(i)))
        /\ \A a \in chart.annotations : a.text = chart.values[a.at + 1]

(* C14's case: a chart drawn for a year with a Missing month cell *)
C14_Witness ==
    /\ Graphed
    /\ chart.drawn
    /\ \E i \in 1..NumMonths : ~IsNum(chart.values[i])
    /\ \E i \in 1..NumMonths : IsNum(chart.values[i])

(* C15: a table with a header and no data record fails with an error that  *)
(* differs from the error of a table with records and no date column; no   *)
(* table is returned.                                                      *)
C15_EmptySeriesDistinct ==
    (pc = "failed" /\ Len(raw.rows) = 0 /\ Len(raw.header) >= 2) =>
        /\ err # NoError
        /\ df_reorganized = NoTable
        /\ err # ErrorOf([raw EXCEPT !.dated = FALSE,
                                     !.rows = <<[year |-> 2021, month |-> 1,
                                                 cell |-> NumCell(3)]>>])
(* C18: a reorganize_ods that fails leaves the output file as it was, and  *)
(* returns no table; one that succeeds writes the whole table, its header  *)
(* label in the first cell.                                                *)
C18_FailureLeavesOutput ==
    [][ pc' # pc =>
          IF ReorganizeFails(raw)
          THEN /\ saved' = saved
               /\ df_reorganized' = df_reorganized
               /\ err' # NoError
          ELSE /\ Len(saved') = Len(df_reorganized'.rows)
               /\ saved'[1][1] = Text(raw.header[2]) ]_vars

(* C18's case: the input failed and the output file of an earlier run is   *)
(* still there.                                                            *)
C18_Witness ==
    /\ pc \in {"failed", "graphed"}
    /\ err # NoError
    /\ ReorganizeFails(raw)
    /\ saved = OldFile
(* The returns of create_ods, and those of a refused graph request *)
OdsReturns == {"ods_no_input", "ods_cancelled", "ods_failed", "ods_created"}
Refusals == {"graph_no_input", "graph_no_ods", "graph_bad_year", "graph_year_not_found"}

(* C16: create_graph is called, and 'graph_created' is shown, only by a    *)
(* callback that starts with an input file selected, output_ods_file set   *)
(* by a create_ods that wrote the file, a year entry that reads as an      *)
(* integer, and that integer a row key of the table of the input file.     *)
C16_GraphOnlyWhenReady ==
    [][ (asked' # NoYear \/ pc' = "graph_created"
                         \/ (message' # message /\ message'.key = "graph_created")) =>
          /\ asked' # NoYear
          /\ input_file \in InputPaths
          /\ output_ods_file \in SavePaths
          /\ files[output_ods_file] # NoFile
          /\ ParseInt(year_entry).ok
          /\ asked' = ParseInt(year_entry).value
          /\ \E i \in 1..Len(Reorganized[input_file].index) :
                 Reorganized[input_file].index[i] = IntKey(asked') ]_vars

(* C16's case: the chart of a year of the data was made and announced *)
C16_Witness ==
    /\ pc = "graph_created"
    /\ asked \in Years
    /\ chart.drawn
    /\ message.key = "graph_created"

(* C17: create_ods without an input file, or with the save dialog          *)
(* cancelled, writes no file, raises nothing and leaves output_ods_file;   *)
(* output_ods_file changes only in a create_ods whose reorganize_ods       *)
(* returned, to the path of that save dialog, where the table then is.     *)
C17_CreateOdsNoOp ==
    [][ /\ (pc' \in OdsReturns /\ (input_file \in {None, ""} \/ output_file_label'.path = "")) =>
              /\ files' = files
              /\ output_ods_file' = output_ods_file
              /\ err' = NoError
        /\ output_ods_file' # output_ods_file =>
              /\ pc' \in OdsReturns
              /\ input_file \in InputPaths
              /\ ~ReorganizeFails(InputFiles[input_file])
              /\ output_ods_file' = output_file_label'.path
              /\ files'[output_ods_file'] =
                     ReorganizedData(InputFiles[input_file], Pivoted(Frame(InputFiles[input_file]))) ]_vars

(* C17's case: the save dialog was cancelled after an ODS file had been    *)
(* created.                                                                *)
C17_Witness ==
    /\ pc = "ods_cancelled"
    /\ output_file_label = Label("")
    /\ output_ods_file \in SavePaths
    /\ files[output_ods_file] # NoFile

(* C19: a refused graph request shows no chart and leaves every ODS file   *)
(* as it was.                                                              *)
C19_RefusalLeavesOds ==
    [][ pc' \in Refusals => (files' = files /\ chart' = NoChart) ]_vars
====
